---- MODULE Spec2Model ----
(***************************************************************************)
(* Model of the message-scheduling engine of simple_devicesim.py:          *)
(* run_message_loop, execute_message_group, execute_continuous_schedule    *)
(* and execute_request_response_message, driven over one connection.       *)
(*                                                                         *)
(* The engine is one sequential thread of control; pc names the statement  *)
(* it is blocked in or about to execute.  The peer is a second process     *)
(* that writes messages into the connection's receive buffer (inbox).      *)
(* Time is an integer clock in the unit of the configuration's delay.      *)
(***************************************************************************)
EXTENDS Integers, Sequences, FiniteSets, TLC

\* ------------------------------------------------------------------ bounds
MaxInbound == 6     \* messages the peer writes in one session
MaxPending == 2     \* unread messages the receive buffer holds
MaxTime == 5        \* last clock value explored

\* Time one send_file call takes.
SendTimes == {0, 1}

NoGroup == "none"    \* no execute_message_group call is on the stack

\* ------------------------------------------------------- external: files
\* find_matching_files: the sorted list of files a pattern matches.
find_matching_files(pattern) ==
    CASE pattern = "A" -> <<"A.bin">>
      [] pattern = "B" -> <<"B.bin">>
      [] pattern = "C" -> <<"C.bin">>
      [] pattern = "G" -> <<"G.1.bin", "G.2.bin">>
      [] OTHER -> <<>>

Rule(p, d, r, w) == [pattern |-> p, delay |-> d, repeat |-> r, waitCount |-> w]

\* Rule sets of the repository's own tests (delays scaled to clock units).
ScenarioConfig == <<Rule("A", 0, 2, 0), Rule("B", 0, 1, 1), Rule("C", 0, -1, 2)>>
ComprehensiveConfig ==
    <<Rule("A", 0, 2, 0), Rule("B", 0, 1, 1), Rule("C", 0, -1, 2), Rule("G", 1, 0, 3)>>
DemoConfig ==
    <<Rule("A", 0, 1, 0), Rule("B", 1, 2, 1), Rule("C", 0, 1, 3), Rule("G", 2, 0, 2)>>
RequestResponseConfig ==
    <<Rule("A", 0, -1, 0), Rule("B", 0, 3, 2), Rule("C", 0, -2, 2)>>

\* Two rules sharing one delay (a rotation set of three payloads) and a
\* third rule with a delay of its own, all continuous and immediate.
RotationConfig == <<Rule("G", 1, 0, 0), Rule("A", 2, 0, 0), Rule("B", 1, 0, 0)>>

\* Rules whose pattern matches no file ("Z"), before and after rules that
\* match: the second's unmatched rule carries the largest waitCount.
NoMatchFirstConfig == <<Rule("Z", 0, 1, 0), Rule("A", 0, 1, 0), Rule("B", 0, 2, 1)>>
NoMatchLastConfig == <<Rule("A", 0, 1, 1), Rule("Z", 0, 1, 2)>>

\* One wait group of three finite messages: the two files of one rule and
\* the file of a second rule.
BurstConfig == <<Rule("G", 1, 2, 1), Rule("A", 0, 2, 1)>>

\* One request-response rule that matches two files, and nothing else.
TwoControllersConfig == <<Rule("G", 0, -1, 0)>>

\* Every rule set of one rule, and every rule set of a rule followed by a
\* second rule with a later trigger.
FirstRules == {Rule("A", d, r, w) : d \in {0, 2}, r \in -2..2, w \in 0..1}
SecondRules == {Rule("B", d, r, w) : d \in {0, 1}, r \in {-1, 0, 1}, w \in 1..2}
Configs ==
    {<<a>> : a \in FirstRules}
    \cup {<<a, b>> : a \in FirstRules, b \in SecondRules}
    \cup {ScenarioConfig, ComprehensiveConfig, DemoConfig, RequestResponseConfig,
          RotationConfig, NoMatchFirstConfig, NoMatchLastConfig, BurstConfig,
          TwoControllersConfig}

\* Rules as the configuration file may give them: 'file name' with any of
\* delay, repeat and waitCount left out, the values given not the defaults.
OmittedConfigs ==
    {<<[f \in {"pattern"} \cup given |->
           CASE f = "pattern" -> "A"
             [] f = "delay" -> 2
             [] f = "repeat" -> 2
             [] f = "waitCount" -> 1]>> :
        given \in SUBSET {"delay", "repeat", "waitCount"}}

\* Rule lists with a rule that has no 'file name'.
MalformedConfigs ==
    {<<[delay |-> 0, repeat |-> 1, waitCount |-> 0]>>,
     <<Rule("A", 0, 1, 0), [repeat |-> 1]>>}

\* The Messages lists a configuration file may hold.
RawConfigs == Configs \cup OmittedConfigs \cup MalformedConfigs \cup {<<>>}

\* Lines 40-46: the default of a field that a rule leaves out.
\* Mutant of DefaultOf: an omitted repeat becomes 0.
DefaultAllZero(f) == 0

DefaultOf(f) == IF f = "repeat" THEN 1 ELSE 0

\* Lines 28-50: the Messages list with every rule's defaults filled in.
load_config(rules) ==
    [n \in DOMAIN rules |->
        [f \in DOMAIN rules[n] \cup {"waitCount", "delay", "repeat"} |->
            IF f \in DOMAIN rules[n] THEN rules[n][f] ELSE DefaultOf(f)]]

\* Line 127: a rule without 'file name' raises KeyError.
Malformed(rules) == \E n \in DOMAIN rules : "pattern" \notin DOMAIN rules[n]

\* ------------------------------------------------------------ sequences
Range(s) == {s[n] : n \in DOMAIN s}
MaxOf(S) == CHOOSE x \in S : \A y \in S : y <= x
abs(x) == IF x < 0 THEN -x ELSE x

RECURSIVE SumSeq(_)
SumSeq(s) == IF s = <<>> THEN 0 ELSE Head(s) + SumSeq(Tail(s))

\* ------------------------------------------- run_message_loop: the groups
RECURSIVE message_entries(_)
\* One entry per matching file of every rule, in rule order then file order.
message_entries(rules) ==
    IF rules = <<>> THEN <<>>
    ELSE LET r == Head(rules)
             matching_files == find_matching_files(r.pattern)
         IN  [j \in 1..Len(matching_files) |->
                 [file_path |-> matching_files[j], delay |-> r.delay,
                  repeat |-> r.repeat, sent_count |-> 0,
                  waitCount |-> r.waitCount]]
             \o message_entries(Tail(rules))

VARIABLES
    raw,                \* the Messages list of the configuration file
    resources,          \* what main holds: "server_socket", "socket_file",
                        \* "connection"
    config,             \* the loaded rule list
    messages,           \* the message entries (shared by all groups)
    received_count,     \* run_message_loop's counter
    pc,                 \* the engine's statement
    group,              \* waitCount of the executing group, or NoGroup
    idx,                \* position in the executing group's current list
    i,                  \* the finite loop's counter
    received_messages,  \* the request-response round's counter
    send_queue,         \* the continuous schedule's heap
    current_index,      \* rotation cursor of each delay group
    start_time,         \* the clock when the continuous schedule began
    current_time,       \* the continuous loop's last clock reading
    now,                \* the clock
    inbox,              \* messages written by the peer and not yet received
    peer_sent,          \* messages the peer has written so far
    sends,              \* the successful sends, as seen on the wire
    fired,              \* how often each group was handed to execute_message_group
    consumed,           \* per message entry: inbound messages its controller took
    main_recvs,         \* receive calls made by run_message_loop
    healthy,            \* no send failed and no receive came back empty
    failures,           \* transport errors so far: "send", "recv", "probe"
    timed_out           \* whose receive ran into its timeout: 0 for the loop
                        \* of run_message_loop, n for the controller of entry n

vars == <<raw, resources, config, messages, received_count, pc, group, idx, i,
          received_messages, send_queue, current_index, start_time,
          current_time, now,
          inbox, peer_sent, sends, fired, consumed, main_recvs, healthy,
          failures, timed_out>>

\* Mutant of GroupOf: a group holds only the first entry of its waitCount.
GroupOfFirst(k) ==
    SelectSeq([n \in 1..Len(messages) |-> n],
              LAMBDA n : /\ messages[n].waitCount = k
                         /\ \A m \in 1..(n - 1) : messages[m].waitCount # k)

\* immediate_messages / wait_groups[k]: indices of the entries of one group.
GroupOf(k) ==
    SelectSeq([n \in 1..Len(messages) |-> n], LAMBDA n : messages[n].waitCount = k)
immediate_messages == GroupOf(0)

\* Mutant of wait_keys: a rule makes a group whether or not a file matches.
WaitKeysOfRules == {config[n].waitCount : n \in DOMAIN config} \ {0}

\* Lines 148-150, 161: the keys of wait_groups.
wait_keys == {messages[n].waitCount : n \in DOMAIN messages} \ {0}
max_wait_count == MaxOf(wait_keys)

\* Mutant of request_response_messages: the controllers run last first.
RequestResponseReversed(g) ==
    LET f == SelectSeq(g, LAMBDA n : messages[n].repeat < 0)
    IN  [j \in 1..Len(f) |-> f[Len(f) + 1 - j]]

\* execute_message_group: the four lists a group is split into.
request_response_messages(g) == SelectSeq(g, LAMBDA n : messages[n].repeat < 0)
\* Mutant of finite_messages: the finite messages are taken last first.
FiniteMessagesReversed(g) ==
    LET f == SelectSeq(g, LAMBDA n : messages[n].repeat > 0)
    IN  [j \in 1..Len(f) |-> f[Len(f) + 1 - j]]

\* Mutant of finite_messages: repeat = 1 is not taken as finite.
FiniteMessagesAboveOne(g) == SelectSeq(g, LAMBDA n : messages[n].repeat > 1)

finite_messages(g) == SelectSeq(g, LAMBDA n : messages[n].repeat > 0)
single_messages(g) ==
    SelectSeq(g, LAMBDA n : messages[n].repeat = 0 /\ messages[n].delay = 0)

\* Mutant of continuous_messages: repeat = 0 alone puts a message on the
\* continuous schedule.
ContinuousWithAnyDelay(g) == SelectSeq(g, LAMBDA n : messages[n].repeat = 0)

\* Line 194: the messages of the continuous schedule.
continuous_messages(g) ==
    SelectSeq(g, LAMBDA n : messages[n].repeat = 0 /\ messages[n].delay > 0)

\* ------------------------------------------------------- control points
Ctl(p, g, n, j) == [pc |-> p, group |-> g, idx |-> n, i |-> j]

\* Mutant of Held: the server socket and the socket file are left behind.
HeldAfterClose(c, held) ==
    IF c.pc = "done" THEN held \ {"connection"} ELSE held

\* Lines 400-411: what main holds once control is at c: leaving
\* run_message_loop, by return or by an exception main catches, runs the
\* finally clauses, which close both sockets and remove the socket file.
Held(c, held) == IF c.pc = "done" THEN {} ELSE held

Goto(c) ==
    /\ pc' = c.pc
    /\ group' = c.group
    /\ idx' = c.idx
    /\ i' = c.i
    /\ resources' = Held(c, resources)

\* Mutant of LoopContinues: the loop receives once more at the largest
\* waitCount.
LoopContinuesInclusive(rc) == rc <= max_wait_count

\* Line 164: the receive loop's condition.
LoopContinues(rc) == rc < max_wait_count

\* Mutant of AfterGroup: the receive loop is entered after any group.
AfterGroupReceives(rc) == Ctl("recv", NoGroup, 0, 0)

\* Mutant of AfterGroup: run_message_loop returns after any group.
AfterGroupReturns(rc) == Ctl("done", NoGroup, 0, 0)

\* Lines 158-182: back in run_message_loop with rc messages counted.
AfterGroup(rc) ==
    IF wait_keys # {} /\ LoopContinues(rc)
    THEN Ctl("recv", NoGroup, 0, 0)
    ELSE Ctl("done", NoGroup, 0, 0)

\* Mutant of StartContinuous: the continuous messages are never scheduled.
SkipContinuous(g, rc) == AfterGroup(rc)

\* Lines 227-229: the group's continuous messages, if any, come last.
StartContinuous(g, rc) ==
    IF continuous_messages(GroupOf(g)) # <<>>
    THEN Ctl("cont_start", g, 0, 0)
    ELSE AfterGroup(rc)

\* Mutant of StartRequestResponse: the controllers are passed over.
SkipControllers(g, n, rc) == StartContinuous(g, rc)

\* Lines 223-225: the n-th request-response message of the group.
StartRequestResponse(g, n, rc) ==
    IF n <= Len(request_response_messages(GroupOf(g)))
    THEN Ctl("rr_first", g, n, 0)
    ELSE StartContinuous(g, rc)

\* Lines 205-213: the n-th finite message of the group.
StartFinite(g, n, rc) ==
    IF n <= Len(finite_messages(GroupOf(g)))
    THEN Ctl("finite", g, n, 0)
    ELSE StartRequestResponse(g, 1, rc)

\* Lines 196-197: the n-th single message of the group.
StartSingle(g, n, rc) ==
    IF n <= Len(single_messages(GroupOf(g)))
    THEN Ctl("single", g, n, 0)
    ELSE StartFinite(g, 1, rc)

\* Mutant of Abandon: after a failed send the group goes on with its
\* request-response and continuous messages.
AbandonMessageOnly(g, rc) == StartRequestResponse(g, 1, rc)

\* Lines 201-203, 219-221: a failed send of a single or finite message
\* returns from execute_message_group.
Abandon(g, rc) == AfterGroup(rc)

\* Lines 185-194: a call of execute_message_group on group g.
execute_message_group(g, rc) == StartSingle(g, 1, rc)

\* Mutant of Triggered: the group fires one message late.
TriggeredLate(rc) == rc - 1 \in wait_keys

\* Line 177: the test that hands a wait group to execute_message_group.
Triggered(rc) == rc \in wait_keys

\* Mutant of repeat_count: one send too many.
RepeatCountPlusOne(msg) == msg.repeat + 1

\* Line 208: the number of sends of a finite message.
repeat_count(msg) == msg.repeat

\* Mutant of finite_sleep: sleeps before the first send too.
FiniteSleepAlways(j, msg) == IF msg.delay > 0 THEN msg.delay ELSE 0

\* Lines 214-215: the sleep before the i-th send (from 0) of a finite message.
finite_sleep(j, msg) == IF j > 0 /\ msg.delay > 0 THEN msg.delay ELSE 0

\* Mutant of request_count: waits for one message too many.
RequestCountPlusOne(msg) == abs(msg.repeat) + 1

\* Line 320: inbound messages a request-response round waits for.
request_count(msg) == abs(msg.repeat)

\* Mutant of delay_seconds: a request-response send is never delayed.
DelaySecondsNone(msg) == 0

\* Lines 321, 328-329, 352-353: the sleep before a request-response send.
delay_seconds(msg) == IF msg.delay > 0 THEN msg.delay ELSE 0

\* Mutant of first_sent_count: the first send is not counted.
FirstSentCountKept(msg) == msg.sent_count

\* Line 335: sent_count after the first send of a request-response message.
first_sent_count(msg) == 1

\* Mutant of CountInRound: the controller's message also counts in the loop.
CountInRoundAndLoop(rm, rc) ==
    [received_messages |-> rm + 1, received_count |-> rc + 1]

\* Lines 343-349: what one received message does to the two counters.
CountInRound(rm, rc) == [received_messages |-> rm + 1, received_count |-> rc]

\* Lines 173-174: what one received message does to the main counter.
CountInLoop(rc) == rc + 1

\* ------------------------------------------------------------ transport
\* Mutant of SentDue: the call returns before the payload is written.
SentDueNoWait(n, slept, d, due) ==
    /\ now + slept + d <= MaxTime
    /\ now' = now + slept
    /\ sends' = Append(sends, [msg |-> n, file_path |-> messages[n].file_path,
                               slept |-> slept, due |-> due, at |-> now + slept,
                               done |-> now + slept + d])
    /\ UNCHANGED <<healthy, failures, timed_out>>

\* send_file succeeded: entry n's payload is on the wire, d after the call
\* that was made slept after the previous statement; due is the time the
\* send was scheduled for.
SentDue(n, slept, d, due) ==
    /\ now + slept + d <= MaxTime
    /\ now' = now + slept + d
    /\ sends' = Append(sends, [msg |-> n, file_path |-> messages[n].file_path,
                               slept |-> slept, due |-> due, at |-> now + slept,
                               done |-> now + slept + d])
    /\ UNCHANGED <<healthy, failures, timed_out>>

\* A send that is not scheduled on a heap is due when it is called.
Sent(n, slept, d) == SentDue(n, slept, d, now + slept)

\* send_file returned False.
SendFailed(slept) ==
    /\ now + slept <= MaxTime
    /\ now' = now + slept
    /\ healthy' = FALSE
    /\ failures' = failures \cup {"send"}
    /\ UNCHANGED <<sends, timed_out>>

\* receive_with_timeout returned data.
Received ==
    /\ inbox > 0
    /\ inbox' = inbox - 1
    /\ UNCHANGED <<healthy, failures, timed_out, peer_sent>>

\* Lines 89-90: nothing arrived within the timeout.
ReceiveTimeout(who) ==
    /\ inbox = 0
    /\ healthy' = FALSE
    /\ timed_out' = timed_out \cup {who}
    /\ UNCHANGED <<inbox, peer_sent, failures>>

\* Lines 85-88, 91-93: recv raised, or returned b'' (the peer closed).
ReceiveFailed ==
    /\ healthy' = FALSE
    /\ failures' = failures \cup {"recv"}
    /\ UNCHANGED <<inbox, peer_sent, timed_out>>

\* receive_with_timeout returned None or b'' to caller who.
ReceivedNothing(who) == ReceiveTimeout(who) \/ ReceiveFailed

contVars == <<send_queue, current_index, start_time, current_time>>

\* ----------------------------------------------------------------- Init
Init ==
    /\ raw \in RawConfigs
    /\ resources = {}
    /\ config = <<>>
    /\ messages = <<>>
    /\ received_count = 0
    /\ pc = "main"
    /\ group = NoGroup
    /\ idx = 0
    /\ i = 0
    /\ received_messages = 0
    /\ send_queue = {}
    /\ current_index = <<>>
    /\ start_time = 0
    /\ current_time = 0
    /\ now = 0
    /\ inbox = 0
    /\ peer_sent = 0
    /\ sends = <<>>
    /\ fired = [k \in {0} |-> 0]
    /\ consumed = <<>>
    /\ main_recvs = 0
    /\ healthy = TRUE
    /\ failures = {}
    /\ timed_out = {}

\* ------------------------------------------------------------------ main
engineVars == <<received_count, group, idx, i, received_messages, contVars,
                now, inbox, peer_sent, sends, main_recvs, healthy, failures,
                timed_out>>

\* Lines 372-378: load the configuration; a file that cannot be read or
\* parsed ends the process.
LoadConfig ==
    /\ pc = "main"
    /\ \/ config' = load_config(raw) /\ pc' = "bind"
       \/ config' = config /\ pc' = "exited"
    /\ UNCHANGED <<raw, resources, messages, fired, consumed, engineVars>>

\* Lines 380-389: bind the socket file and listen.
Listen ==
    /\ pc = "bind"
    /\ \/ resources' = {"server_socket", "socket_file"} /\ pc' = "accept"
       \/ resources' = {"server_socket"} /\ pc' = "raised"
    /\ UNCHANGED <<raw, config, messages, fired, consumed, engineVars>>

\* Lines 391-394: wait for the one connection.
Accept ==
    /\ pc = "accept"
    /\ \/ resources' = resources \cup {"connection"} /\ pc' = "loop"
       \/ resources' = resources /\ pc' = "raised"
    /\ UNCHANGED <<raw, config, messages, fired, consumed, engineVars>>

\* Lines 112-150: run_message_loop builds the message entries and groups.
BuildGroups ==
    /\ pc = "loop"
    /\ IF config = <<>>
       THEN /\ pc' = "done"
            /\ resources' = Held(Ctl("done", NoGroup, 0, 0), resources)
            /\ UNCHANGED <<messages, fired, consumed>>
       ELSE IF Malformed(config)
       THEN /\ pc' = "raised"
            /\ UNCHANGED <<resources, messages, fired, consumed>>
       ELSE /\ messages' = message_entries(config)
            /\ fired' = [k \in {0} \cup {config[n].waitCount :
                                              n \in DOMAIN config} |-> 0]
            /\ consumed' = [n \in DOMAIN messages' |-> 0]
            /\ pc' = "start"
            /\ UNCHANGED resources
    /\ UNCHANGED <<raw, config, engineVars>>

\* Lines 402-411: the finally clauses of main, reached by an exception
\* raised outside run_message_loop or one that main does not catch.
Cleanup ==
    /\ pc = "raised"
    /\ resources' = {}
    /\ pc' = "exited"
    /\ UNCHANGED <<raw, config, messages, fired, consumed, engineVars>>

\* ------------------------------------------------------ run_message_loop
\* Mutant of Start: the receive loop is entered without the immediate group.
StartWithoutImmediate ==
    /\ pc = "start"
    /\ Goto(AfterGroup(received_count))
    /\ UNCHANGED <<raw, config, messages, received_count, received_messages, contVars,
                   now, inbox, peer_sent, sends, fired, consumed, main_recvs,
                   healthy, failures, timed_out>>

\* Lines 112-160: send the immediate group, then enter the receive loop.
Start ==
    /\ pc = "start"
    /\ IF immediate_messages # <<>>
       THEN /\ fired' = [fired EXCEPT ![0] = @ + 1]
            /\ Goto(execute_message_group(0, received_count))
       ELSE /\ Goto(AfterGroup(received_count))
            /\ UNCHANGED fired
    /\ UNCHANGED <<raw, config, messages, received_count, received_messages, contVars,
                   now, inbox, peer_sent, sends, consumed, main_recvs, healthy,
                   failures, timed_out>>

\* Mutant of MainReceive: after a receive error the loop receives again.
MainReceiveErrorRetries ==
    /\ pc = "recv"
    /\ main_recvs' = main_recvs + 1
    /\ \/ /\ Received
          /\ received_count' = CountInLoop(received_count)
          /\ IF Triggered(received_count')
             THEN /\ fired' = [fired EXCEPT ![received_count'] = @ + 1]
                  /\ Goto(execute_message_group(received_count', received_count'))
             ELSE /\ Goto(AfterGroup(received_count'))
                  /\ UNCHANGED fired
       \/ /\ ReceiveTimeout(0)
          /\ Goto(Ctl("done", NoGroup, 0, 0))
          /\ UNCHANGED <<received_count, fired>>
       \/ /\ ReceiveFailed
          /\ Goto(Ctl("recv", NoGroup, 0, 0))
          /\ UNCHANGED <<received_count, fired>>
    /\ UNCHANGED <<raw, config, messages, received_messages, contVars, now, sends,
                   consumed>>

\* Lines 164-180: one pass of the receive loop.
MainReceive ==
    /\ pc = "recv"
    /\ main_recvs' = main_recvs + 1
    /\ \/ /\ Received
          /\ received_count' = CountInLoop(received_count)
          /\ IF Triggered(received_count')
             THEN /\ fired' = [fired EXCEPT ![received_count'] = @ + 1]
                  /\ Goto(execute_message_group(received_count', received_count'))
             ELSE /\ Goto(AfterGroup(received_count'))
                  /\ UNCHANGED fired
       \/ /\ ReceivedNothing(0)
          /\ Goto(Ctl("done", NoGroup, 0, 0))
          /\ UNCHANGED <<received_count, fired>>
    /\ UNCHANGED <<raw, config, messages, received_messages, contVars, now, sends,
                   consumed>>

\* -------------------------------------------------- execute_message_group
\* Lines 197-203: one single message.
SendSingle ==
    /\ pc = "single"
    /\ LET n == single_messages(GroupOf(group))[idx] IN
       \/ \E d \in SendTimes :
            /\ Sent(n, 0, d)
            /\ messages' = [messages EXCEPT ![n].sent_count = @ + 1]
            /\ Goto(StartSingle(group, idx + 1, received_count))
       \/ /\ SendFailed(0)
          /\ Goto(Abandon(group, received_count))
          /\ UNCHANGED messages
    /\ UNCHANGED <<raw, config, received_count, received_messages, contVars, inbox,
                   peer_sent, fired, consumed, main_recvs>>

\* Lines 213-221: one iteration of a finite message's loop.
SendFinite ==
    /\ pc = "finite"
    /\ LET n == finite_messages(GroupOf(group))[idx]
           slept == finite_sleep(i, messages[n])
       IN
       \/ \E d \in SendTimes :
            /\ Sent(n, slept, d)
            /\ messages' = [messages EXCEPT ![n].sent_count = @ + 1]
            /\ IF i + 1 < repeat_count(messages[n])
               THEN Goto(Ctl("finite", group, idx, i + 1))
               ELSE Goto(StartFinite(group, idx + 1, received_count))
       \/ /\ SendFailed(slept)
          /\ Goto(Abandon(group, received_count))
          /\ UNCHANGED messages
    /\ UNCHANGED <<raw, config, received_count, received_messages, contVars, inbox,
                   peer_sent, fired, consumed, main_recvs>>

\* ------------------------------------- execute_request_response_message
\* Lines 320-335: the first send of a request-response message.
RequestResponseFirstSend ==
    /\ pc = "rr_first"
    /\ LET n == request_response_messages(GroupOf(group))[idx]
           slept == delay_seconds(messages[n])
       IN
       \/ \E d \in SendTimes :
            /\ Sent(n, slept, d)
            /\ messages' = [messages EXCEPT ![n].sent_count = first_sent_count(messages[n])]
            /\ received_messages' = 0
            /\ Goto(Ctl("rr_wait", group, idx, 0))
       \/ /\ SendFailed(slept)
          /\ Goto(StartRequestResponse(group, idx + 1, received_count))
          /\ UNCHANGED <<messages, received_messages>>
    /\ UNCHANGED <<raw, config, received_count, contVars, inbox, peer_sent, fired,
                   consumed, main_recvs>>

\* Mutant of RequestResponseReceive: an empty receive is tried again.
RequestResponseReceiveRetry ==
    /\ pc = "rr_wait"
    /\ LET n == request_response_messages(GroupOf(group))[idx]
           counted == CountInRound(received_messages, received_count)
       IN
       \/ /\ Received
          /\ received_messages' = counted.received_messages
          /\ received_count' = counted.received_count
          /\ consumed' = [consumed EXCEPT ![n] = @ + 1]
          /\ IF received_messages' < request_count(messages[n])
             THEN Goto(Ctl("rr_wait", group, idx, 0))
             ELSE Goto(Ctl("rr_send", group, idx, 0))
       \/ /\ ReceivedNothing(n)
          /\ Goto(Ctl("rr_wait", group, idx, 0))
          /\ UNCHANGED <<received_messages, received_count, consumed>>
    /\ UNCHANGED <<raw, config, messages, contVars, now, sends, fired, main_recvs>>

\* Lines 343-349: one receive of a round.
RequestResponseReceive ==
    /\ pc = "rr_wait"
    /\ LET n == request_response_messages(GroupOf(group))[idx]
           counted == CountInRound(received_messages, received_count)
       IN
       \/ /\ Received
          /\ received_messages' = counted.received_messages
          /\ received_count' = counted.received_count
          /\ consumed' = [consumed EXCEPT ![n] = @ + 1]
          /\ IF received_messages' < request_count(messages[n])
             THEN Goto(Ctl("rr_wait", group, idx, 0))
             ELSE Goto(Ctl("rr_send", group, idx, 0))
       \/ /\ ReceivedNothing(n)
          /\ Goto(StartRequestResponse(group, idx + 1, received_count))
          /\ UNCHANGED <<received_messages, received_count, consumed>>
    /\ UNCHANGED <<raw, config, messages, contVars, now, sends, fired, main_recvs>>

\* Lines 351-360: the send that ends a round.
RequestResponseSend ==
    /\ pc = "rr_send"
    /\ LET n == request_response_messages(GroupOf(group))[idx]
           slept == delay_seconds(messages[n])
       IN
       \/ \E d \in SendTimes :
            /\ Sent(n, slept, d)
            /\ messages' = [messages EXCEPT ![n].sent_count = @ + 1]
            /\ received_messages' = 0
            /\ Goto(Ctl("rr_wait", group, idx, 0))
       \/ /\ SendFailed(slept)
          /\ Goto(StartRequestResponse(group, idx + 1, received_count))
          /\ UNCHANGED <<messages, received_messages>>
    /\ UNCHANGED <<raw, config, received_count, contVars, inbox, peer_sent, fired,
                   consumed, main_recvs>>

\* -------------------------------------------- execute_continuous_schedule
PollInterval == 1   \* line 311: the sleep that ends each pass of the loop

\* Lines 245-250: positions (in reply_schedule) of the messages of one delay.
delay_group(reply_schedule, delay) ==
    SelectSeq([p \in 1..Len(reply_schedule) |-> p],
              LAMBDA p : messages[reply_schedule[p]].delay = delay)

delay_values(reply_schedule) ==
    {messages[reply_schedule[p]].delay : p \in DOMAIN reply_schedule}

\* Mutant of Earlier: the heap gives the latest entry first.
LaterFirst(a, b) ==
    \/ a.send_time > b.send_time
    \/ a.send_time = b.send_time /\ a.msg_index <= b.msg_index

\* heapq order: by send_time, then by msg_index.
Earlier(a, b) ==
    \/ a.send_time < b.send_time
    \/ a.send_time = b.send_time /\ a.msg_index <= b.msg_index

heap_top(queue) == CHOOSE a \in queue : \A b \in queue : Earlier(a, b)

\* Mutant of Due: an entry is popped one clock unit early.
DueEarly(queue, t) == queue # {} /\ heap_top(queue).send_time <= t + 1

\* Line 277: an entry is due at the loop's last clock reading.
Due(queue, t) == queue # {} /\ heap_top(queue).send_time <= t

\* Mutant of next_send_time: the period is counted from the actual send.
NextSendTimeFromNow(entry) == now + entry.delay

\* Line 286: when the delay group fires next.
next_send_time(entry) == entry.send_time + entry.delay

\* Mutant of rotate: the cursor stays where it is.
RotateStuck(cursor, size) == cursor

\* Line 290: the rotation cursor after a send.
rotate(cursor, size) == (cursor + 1) % size

\* Mutant of first_send_time: a set fires at once when the schedule starts.
FirstSendAtStart(start, delay) == start

\* Line 253: the fire time of a delay group's first entry.
first_send_time(start, delay) == start + delay

\* Mutant of rescheduled: a sent entry is not pushed again.
RescheduledNever(entry, next_msg_index) == {}

\* Lines 284-293: what is pushed after a send; repeat is 0 for every
\* message of the schedule, so the test of line 284 is always true.
rescheduled(entry, next_msg_index) ==
    {[send_time |-> next_send_time(entry),
      msg_index |-> next_msg_index,
      delay |-> entry.delay]}

\* Lines 241-274: build the heap, one entry per delay group, read the clock.
ContinuousStart ==
    /\ pc = "cont_start"
    /\ LET reply_schedule == continuous_messages(GroupOf(group)) IN
       /\ start_time' = now
       /\ send_queue' =
              {[send_time |-> first_send_time(now, d),
                msg_index |-> delay_group(reply_schedule, d)[1],
                delay |-> d] : d \in delay_values(reply_schedule)}
       /\ current_index' = [d \in delay_values(reply_schedule) |-> 0]
    /\ current_time' = now
    /\ Goto(Ctl("cont", group, 0, 0))
    /\ UNCHANGED <<raw, config, messages, received_count, received_messages, now,
                   inbox, peer_sent, sends, fired, consumed, main_recvs, healthy,
                   failures, timed_out>>

\* Lines 277-299: pop the entry that is due and send its message.
ContinuousSend ==
    /\ pc = "cont"
    /\ Due(send_queue, current_time)
    /\ LET reply_schedule == continuous_messages(GroupOf(group))
           entry == heap_top(send_queue)
           n == reply_schedule[entry.msg_index]
           grp == delay_group(reply_schedule, entry.delay)
           cursor == rotate(current_index[entry.delay], Len(grp))
       IN
       \/ \E d \in SendTimes :
            /\ SentDue(n, 0, d, entry.send_time)
            /\ messages' = [messages EXCEPT ![n].sent_count = @ + 1]
            /\ current_index' = [current_index EXCEPT ![entry.delay] = cursor]
            /\ send_queue' =
                   (send_queue \ {entry}) \cup rescheduled(entry, grp[cursor + 1])
            /\ Goto(Ctl("cont", group, 0, 0))
       \/ /\ SendFailed(0)
          /\ Goto(AfterGroup(received_count))
          /\ send_queue' = send_queue \ {entry}
          /\ UNCHANGED <<messages, current_index>>
    /\ UNCHANGED <<raw, config, received_count, received_messages, start_time,
                   current_time, inbox, peer_sent, fired, consumed, main_recvs>>

\* Lines 301-311 and 273-274: nothing is due: probe the connection, sleep,
\* read the clock again.
ContinuousTick ==
    /\ pc = "cont"
    /\ ~Due(send_queue, current_time)
    /\ \/ /\ now + PollInterval <= MaxTime
          /\ now' = now + PollInterval
          /\ current_time' = now'
          /\ IF send_queue # {}
             THEN Goto(Ctl("cont", group, 0, 0))
             ELSE Goto(AfterGroup(received_count))
          /\ UNCHANGED <<healthy, failures>>
       \/ /\ healthy' = FALSE
          /\ failures' = failures \cup {"probe"}
          /\ \/ Goto(AfterGroup(received_count))
             \/ Goto(Ctl("done", NoGroup, 0, 0))
          /\ UNCHANGED <<now, current_time>>
    /\ UNCHANGED <<raw, config, messages, received_count, received_messages,
                   send_queue, current_index, start_time, inbox, peer_sent,
                   sends, fired, consumed, main_recvs, timed_out>>

\* ----------------------------------------------------------------- peer
\* The client writes one message to the connection.
PeerSend ==
    /\ "connection" \in resources
    /\ pc # "raised"
    /\ peer_sent < MaxInbound
    /\ inbox < MaxPending
    /\ inbox' = inbox + 1
    /\ peer_sent' = peer_sent + 1
    /\ UNCHANGED <<raw, resources, config, messages, received_count, pc, group, idx, i,
                   received_messages, contVars, now, sends, fired, consumed,
                   main_recvs, healthy, failures, timed_out>>

Next ==
    \/ LoadConfig
    \/ Listen
    \/ Accept
    \/ BuildGroups
    \/ Cleanup
    \/ Start
    \/ MainReceive
    \/ SendSingle
    \/ SendFinite
    \/ RequestResponseFirstSend
    \/ RequestResponseReceive
    \/ RequestResponseSend
    \/ ContinuousStart
    \/ ContinuousSend
    \/ ContinuousTick
    \/ PeerSend

Spec == Init /\ [][Next]_vars

\* ------------------------------------------------------------ observers
\* Inbound messages counted so far, by the main loop or by a controller.
Counted == received_count + SumSeq(consumed)

\* run_message_loop has built its groups.
Built ==
    pc \in {"start", "recv", "single", "finite", "rr_first", "rr_wait",
            "rr_send", "cont_start", "cont", "done"}

\* The sends of message entry n, in wire order.
SendsOf(n) == SelectSeq(sends, LAMBDA e : e.msg = n)

\* A request-response controller is running (between its start and return).
ControllerActive == pc \in {"rr_first", "rr_wait", "rr_send"}

\* The entry whose controller is running.
ControllerEntry == request_response_messages(GroupOf(group))[idx]

C2_EveryInboundCounted ==
    /\ Counted + inbox = peer_sent
    /\ (pc = "done" /\ healthy /\ wait_keys # {}) => inbox = 0

\* ----------------------------------------------------------------- C3
\* A group that has not fired although the main counter, with the messages
\* waiting in the connection, reaches its waitCount.
PendingReached ==
    \E k \in wait_keys : fired[k] = 0 /\ received_count + inbox >= k

\* C3: a running continuous group does not block the receive loop: while
\* it runs and the messages waiting in the connection reach the waitCount
\* of a pending group, the loop's receive (lines 164-180) can take them.
C3_LoopNotBlocked ==
    (pc = "cont" /\ healthy /\ PendingReached) => ENABLED MainReceive

\* ----------------------------------------------------------------- C7
\* C7: every client message advances the waitCount triggers, also when a
\* request-response controller took it: once k messages were taken from
\* the connection, the group of waitCount k has fired.
C7_ControllerMessagesTrigger ==
    \A k \in wait_keys : Counted >= k => fired[k] >= 1

\* ----------------------------------------------------------------- C4
\* C4: the group of waitCount k > 0 is handed to execute_message_group in
\* exactly the step in which received_count becomes k, and never twice.
C4_FiresAtCount ==
    [][\A k \in wait_keys :
          /\ fired'[k] \in {fired[k], fired[k] + 1}
          /\ fired'[k] <= 1
          /\ (fired'[k] = fired[k] + 1)
               <=> (received_count = k - 1 /\ received_count' = k)]_vars

\* A finite group with waitCount 2 has fired at the second counted message.
C4_Witness ==
    /\ 2 \in wait_keys
    /\ fired[2] = 1
    /\ received_count = 2
    /\ finite_messages(GroupOf(2)) # <<>>
    /\ SendsOf(finite_messages(GroupOf(2))[1]) # <<>>

\* ----------------------------------------------------------------- C5
\* The n-th send of the scenario [A x2 at 0, B x1 at 1, C request-response
\* at 2].
ScenarioSend(n) ==
    IF n <= 2 THEN "A.bin" ELSE IF n = 3 THEN "B.bin" ELSE "C.bin"

\* C5: in the scenario, as long as no send failed and no receive came back
\* empty, the sends are A, A, B, C, C, ... in this order; the n-th send
\* (n > 2) needs n - 2 counted inbound messages, and whenever the engine
\* waits for input it has sent exactly 2 + (number of inbound messages
\* counted) payloads.
C5_Scenario ==
    (config = ScenarioConfig /\ healthy) =>
        /\ \A n \in DOMAIN sends : sends[n].file_path = ScenarioSend(n)
        /\ Len(sends) <= 2 + Counted
        /\ pc \in {"recv", "rr_wait"} => Len(sends) = 2 + Counted

\* The scenario has run to the second resend of C.
C5_Witness ==
    /\ config = ScenarioConfig
    /\ healthy
    /\ pc = "rr_wait"
    /\ Counted = 4
    /\ Len(sends) = 6

\* ----------------------------------------------------------------- C6
\* C6: a request-response message with repeat = -m has never been sent
\* more than once per m messages its controller took (plus the first
\* send), and while its controller awaits it has been sent exactly once
\* per completed round of m messages.
C6_RoundsOfM ==
    \A n \in DOMAIN messages :
        messages[n].repeat < 0 =>
            LET m == -messages[n].repeat IN
            /\ Len(SendsOf(n)) <= 1 + (consumed[n] \div m)
            /\ (pc = "rr_wait" /\ ControllerEntry = n) =>
                  /\ Len(SendsOf(n)) = 1 + (consumed[n] \div m)
                  /\ received_messages = consumed[n] % m
            /\ (pc = "rr_send" /\ ControllerEntry = n) =>
                  /\ Len(SendsOf(n)) = consumed[n] \div m
                  /\ consumed[n] % m = 0

\* Three full rounds of a repeat = -2 message.
C6_Witness ==
    \E n \in DOMAIN messages :
        /\ messages[n].repeat = -2
        /\ consumed[n] = 6
        /\ Len(SendsOf(n)) = 4

\* ----------------------------------------------------------------- C8
\* The finite loop of entry n is over (or was never entered).
FiniteLoopOver(n) ==
    /\ fired[messages[n].waitCount] >= 1
    /\ ~(pc \in {"single", "finite"} /\ group = messages[n].waitCount)

\* C8: for a finite message (repeat = r > 0) the first send follows no
\* sleep, every later send starts no earlier than delay after the previous
\* send completed, and once its loop is over with no failure so far
\* exactly r sends were made.
C8_FiniteBurst ==
    \A n \in DOMAIN messages :
        messages[n].repeat > 0 =>
            LET s == SendsOf(n) IN
            /\ s # <<>> => s[1].slept = 0
            /\ \A j \in 1..(Len(s) - 1) :
                  /\ s[j].at <= s[j].done
                  /\ s[j + 1].at >= s[j].done + messages[n].delay
            /\ (healthy /\ FiniteLoopOver(n)) => Len(s) = messages[n].repeat

\* A burst of two sends with a delay of 2 between them has completed.
C8_Witness ==
    \E n \in DOMAIN messages :
        /\ messages[n].repeat = 2
        /\ messages[n].delay = 2
        /\ healthy
        /\ FiniteLoopOver(n)
        /\ Len(SendsOf(n)) = 2
        /\ SendsOf(n)[2].at > SendsOf(n)[1].done

\* ----------------------------------------------------------------- C9
\* C9: sent_count of a finite message never exceeds its repeat.
C9_SentCountBounded ==
    \A n \in DOMAIN messages :
        messages[n].repeat > 0 => messages[n].sent_count <= messages[n].repeat

\* A finite message has been sent repeat = 2 times and the session went on
\* to a failure.
C9_Witness ==
    \E n \in DOMAIN messages :
        /\ messages[n].repeat = 2
        /\ messages[n].sent_count = 2
        /\ ~healthy
        /\ pc = "done"

\* ---------------------------------------------------------------- C10
\* C10: the immediate group is handed to execute_message_group once, in
\* the first step of run_message_loop: before that step nothing was
\* received, counted or sent, and after it the group has run exactly once.
C10_ImmediateOnceFirst ==
    immediate_messages # <<>> =>
        /\ fired[0] = (IF pc = "start" THEN 0 ELSE 1)
        /\ (fired[0] = 0) =>
              (main_recvs = 0 /\ Counted = 0 /\ sends = <<>> /\ inbox = peer_sent)

\* The main loop has received after the immediate group ran.
C10_Witness ==
    /\ immediate_messages # <<>>
    /\ fired[0] = 1
    /\ main_recvs >= 1
    /\ received_count >= 1

\* ---------------------------------------------------------------- C11
\* C11: once a send_file call has failed, the connection's processing is
\* over: no later step puts a payload on the wire, takes a message from
\* the connection, or runs into another receive error or timeout.
C11_FailedSendEndsAll ==
    [][("send" \in failures) =>
          /\ sends' = sends
          /\ inbox' >= inbox
          /\ main_recvs' = main_recvs
          /\ failures' = failures
          /\ timed_out' = timed_out]_vars

\* ---------------------------------------------------------------- C12
\* C12: a timeout of the receive in run_message_loop's loop does not end
\* the loop: when that receive timed out and the transport reported no
\* error, run_message_loop has not returned.
C12_LoopTimeoutSoft ==
    (0 \in timed_out /\ failures = {}) => pc # "done"

\* ---------------------------------------------------------------- C13
\* C13: a controller whose receive timed out never sends its payload
\* again, and the timeout stops nothing else: the step of the timeout
\* changes no counter of the loop, marks no transport error, and leaves
\* run_message_loop running whenever a wait group is still pending.
C13_ControllerTimeoutLocal ==
    [][/\ \A n \in timed_out \ {0} :
             SelectSeq(sends', LAMBDA e : e.msg = n) = SendsOf(n)
       /\ \A n \in (timed_out' \ timed_out) \ {0} :
             /\ received_count' = received_count
             /\ fired' = fired
             /\ failures' = failures
             /\ (wait_keys # {} /\ received_count < max_wait_count)
                   => pc' # "done"]_vars

\* After a controller's timeout a later wait group fired and sent.
C13_Witness ==
    \E n \in timed_out \ {0} : \E m \in DOMAIN messages :
        /\ failures = {}
        /\ messages[m].waitCount > messages[n].waitCount
        /\ fired[messages[m].waitCount] = 1
        /\ SendsOf(m) # <<>>
        /\ Len(SendsOf(n)) >= 2

\* ---------------------------------------------------------------- C14
\* C14: run_message_loop does not return while the transport is healthy:
\* once it has returned from a session with wait groups in which no
\* receive timed out, some send, receive or probe has failed.
C14_ReturnsOnlyOnFailure ==
    (pc = "done" /\ wait_keys # {} /\ timed_out = {}) => failures # {}

\* ---------------------------------------------------------------- C15
\* Control is inside the execute_message_group call of group k.
Executing(k) ==
    /\ pc \in {"single", "finite", "rr_first", "rr_wait", "rr_send",
               "cont_start", "cont"}
    /\ group = k

\* Group k holds a request-response or a continuous message.
LongRunning(k) ==
    \/ request_response_messages(GroupOf(k)) # <<>>
    \/ continuous_messages(GroupOf(k)) # <<>>

\* Group k has something left to run: a continuous schedule, or a
\* request-response message whose controller has not timed out.
StillToRun(k) ==
    \/ continuous_messages(GroupOf(k)) # <<>>
    \/ \E n \in Range(request_response_messages(GroupOf(k))) : n \notin timed_out

\* C15 as stated: a continuous or request-response group is triggered at
\* most once, and once triggered it runs for as long as the transport has
\* not failed.
C15_RunsUntilFailure ==
    \A k \in DOMAIN fired :
        LongRunning(k) =>
            /\ fired[k] <= 1
            /\ (fired[k] = 1 /\ failures = {}) => Executing(k)

\* C15 amended: a continuous or request-response group is triggered at
\* most once, and once triggered it runs until the transport fails or,
\* with no continuous message in it, until the receive of each of its
\* request-response controllers has timed out.
C15_RunsUntilFailureOrTimeout ==
    \A k \in DOMAIN fired :
        LongRunning(k) =>
            /\ fired[k] <= 1
            /\ (fired[k] = 1 /\ failures = {} /\ StillToRun(k)) => Executing(k)

\* A group's controller timed out and the group's continuous schedule
\* runs on and has sent.
C15_Witness ==
    /\ pc = "cont"
    /\ failures = {}
    /\ fired[group] = 1
    /\ \E n \in Range(request_response_messages(GroupOf(group))) :
          n \in timed_out
    /\ \E n \in Range(continuous_messages(GroupOf(group))) :
          Len(SendsOf(n)) >= 2

\* ---------------------------------------------------- rotation sets
\* Entry n is sent by the continuous schedule.
IsContinuous(n) == messages[n].repeat = 0 /\ messages[n].delay > 0

\* The rotation sets of the session, each named by waitCount and delay.
RotationKeys ==
    {<<messages[n].waitCount, messages[n].delay>> :
        n \in {m \in DOMAIN messages : IsContinuous(m)}}

\* The payloads of one rotation set, in resolution order.
RotationSet(key) ==
    SelectSeq([n \in 1..Len(messages) |-> n],
              LAMBDA n : /\ IsContinuous(n)
                         /\ messages[n].waitCount = key[1]
                         /\ messages[n].delay = key[2])

\* The sends of one rotation set, in wire order.
RotationSends(key) ==
    SelectSeq(sends, LAMBDA e : /\ IsContinuous(e.msg)
                                /\ messages[e.msg].waitCount = key[1]
                                /\ messages[e.msg].delay = key[2])

\* ---------------------------------------------------------------- C16
\* C16: the j-th send (from 0) of a rotation set of N payloads is payload
\* j mod N in resolution order, and each tick of the set carries exactly
\* one send: the scheduled times of consecutive sends differ by the delay,
\* the first being one delay after the schedule started.
C16_RotationOrder ==
    \A key \in RotationKeys :
        LET set == RotationSet(key)
            s == RotationSends(key)
        IN  /\ \A j \in DOMAIN s :
                  /\ s[j].msg = set[((j - 1) % Len(set)) + 1]
                  /\ j > 1 => s[j].due = s[j - 1].due + key[2]
            /\ (pc = "cont" /\ group = key[1] /\ s # <<>>)
                  => s[1].due = start_time + key[2]

\* A set of three payloads has wrapped round while a second set sent too.
C16_Witness ==
    \E key \in RotationKeys : \E other \in RotationKeys :
        /\ Len(RotationSet(key)) = 3
        /\ Len(RotationSends(key)) >= 4
        /\ other # key
        /\ Len(RotationSends(other)) >= 1

\* ---------------------------------------------------------------- C17
\* Sends in s made at a clock value within a..b.
WindowCount(s, a, b) ==
    Cardinality({j \in DOMAIN s : a <= s[j].at /\ s[j].at <= b})

\* C17 (upper half of the stated bound): no window of W clock units holds
\* more than floor(W / D) + 1 sends of a rotation set with delay D.
C17_WindowRate ==
    \A key \in RotationKeys :
        \A a \in 0..now : \A b \in a..now :
            WindowCount(RotationSends(key), a, b) <= ((b - a) \div key[2]) + 1

\* ---------------------------------------------------------------- C18
\* C18: every send of the continuous schedule is made at a clock value at
\* or after the fire time of the heap entry it was popped from.
C18_NotBeforeDue ==
    \A j \in DOMAIN sends :
        IsContinuous(sends[j].msg) => sends[j].at >= sends[j].due

\* One continuous send was made on time and a later one late.
C18_Witness ==
    \E j \in DOMAIN sends : \E l \in DOMAIN sends :
        /\ j < l
        /\ IsContinuous(sends[j].msg)
        /\ IsContinuous(sends[l].msg)
        /\ sends[j].at = sends[j].due
        /\ sends[l].at > sends[l].due

\* ---------------------------------------------------------------- C19
\* C19: at most one send is in flight: every send_file call has returned
\* by the current clock value, and each send starts at or after the
\* completion of the send before it, whatever dispatch made the two.
C19_OneSendInFlight ==
    \A j \in DOMAIN sends :
        /\ sends[j].at <= sends[j].done
        /\ sends[j].done <= now
        /\ j > 1 => sends[j - 1].done <= sends[j].at

\* Finite, request-response and continuous sends on one connection, one
\* of them taking time and followed at once by the next.
C19_Witness ==
    /\ \E j \in DOMAIN sends : messages[sends[j].msg].repeat > 0
    /\ \E j \in DOMAIN sends : messages[sends[j].msg].repeat < 0
    /\ \E j \in DOMAIN sends : IsContinuous(sends[j].msg)
    /\ \E j \in DOMAIN sends :
          /\ j > 1
          /\ sends[j - 1].done > sends[j - 1].at
          /\ sends[j].at = sends[j - 1].done

\* ---------------------------------------------------------------- C20
\* The execute_message_group call of group k has returned with no failure.
GroupCompleted(k) == fired[k] = 1 /\ healthy /\ pc \in {"recv", "done"}

\* C20: the entries of all rules with one waitCount form one group: it is
\* handed to execute_message_group at most once, for k > 0 in the step in
\* which received_count becomes k, every send made while it executes is of
\* an entry with that waitCount, and when its call has returned with no
\* failure every entry with that waitCount, of whichever rule, was sent.
C20_OneGroupPerWaitCount ==
    /\ [](\A k \in DOMAIN fired :
             /\ fired[k] <= 1
             /\ GroupCompleted(k) =>
                   \A n \in DOMAIN messages :
                       messages[n].waitCount = k =>
                           Len(SendsOf(n)) = (IF messages[n].repeat > 0
                                              THEN messages[n].repeat ELSE 1))
    /\ [][/\ \A k \in wait_keys :
                fired'[k] # fired[k] => received_count' = k
          /\ Len(sends') > Len(sends) =>
                messages[sends'[Len(sends')].msg].waitCount = group]_vars

\* Two rules share a waitCount and the entries of both were sent at the
\* one trigger.
C20_Witness ==
    \E a \in DOMAIN config : \E b \in DOMAIN config :
        /\ a < b
        /\ config[a].waitCount = config[b].waitCount
        /\ config[a].waitCount > 0
        /\ Built
        /\ GroupCompleted(config[a].waitCount)
        /\ received_count = config[a].waitCount
        /\ Len(sends) >= 2

\* ---------------------------------------------------------------- C21
\* C21: a malformed rule is reported before any connection is accepted:
\* no run holds an accepted connection and then fails in run_message_loop
\* because a rule lacks its file-name pattern.
C21_MalformedBeforeAccept ==
    ~(pc = "raised" /\ "connection" \in resources /\ Malformed(config))

\* ---------------------------------------------------------------- C22
\* The rules whose pattern matches at least one file.
Matching(rules) ==
    SelectSeq(rules, LAMBDA r : find_matching_files(r.pattern) # <<>>)

\* The waitCounts of the rules that match at least one file.
MatchingWaitCounts == {r.waitCount : r \in Range(Matching(config))}

\* The message entries as they were built.
EntriesAsBuilt == [n \in DOMAIN messages |-> [messages[n] EXCEPT !.sent_count = 0]]

\* C22: a rule that matches no file contributes nothing: the entries and
\* the trigger groups are those of the configuration without that rule, a
\* waitCount that only such rules carry never fires, and the receive loop
\* waits for no more messages than the largest waitCount of the rules
\* that match.
C22_NoMatchIsNoOp ==
    Built =>
        /\ EntriesAsBuilt = message_entries(Matching(config))
        /\ wait_keys = MatchingWaitCounts \ {0}
        /\ \A k \in DOMAIN fired : k \notin MatchingWaitCounts => fired[k] = 0
        /\ pc = "recv" => received_count < MaxOf(MatchingWaitCounts)
        /\ \A j \in DOMAIN sends :
              \E r \in Range(Matching(config)) :
                  sends[j].file_path \in Range(find_matching_files(r.pattern))

\* The rule with the largest waitCount matched nothing: the loop returned
\* healthy after the one message the matching rule waits for.
C22_Witness ==
    /\ config = NoMatchLastConfig
    /\ pc = "done"
    /\ healthy
    /\ received_count = 1
    /\ Len(sends) = 1
    /\ fired[2] = 0

\* ---------------------------------------------------------------- C23
\* C23: whichever way main leaves after binding (the message loop
\* returned, a send or receive failed, a socket call raised), the accepted
\* connection and the server socket end up closed and the socket file
\* removed: after a return of run_message_loop or the end of the process
\* nothing is held, and a raised exception always has the finally clauses
\* ahead of it.  Without the connection no payload is sent and no receive
\* is made.
C23_CleanupOnEveryExit ==
    /\ [](/\ pc \in {"done", "exited"} => resources = {}
          /\ pc = "raised" => ENABLED Cleanup)
    /\ [][/\ "connection" \notin resources =>
                /\ sends' = sends
                /\ inbox' = inbox
                /\ main_recvs' = main_recvs
                /\ timed_out' \ {0} = timed_out \ {0}
          /\ ("connection" \in resources /\ "connection" \notin resources') =>
                resources' = {}]_vars

\* The loop returned after a payload was sent and a later send failed, and
\* nothing is held any more.
C23_Witness ==
    /\ pc = "done"
    /\ resources = {}
    /\ "send" \in failures
    /\ sends # <<>>
    /\ received_count >= 1

\* ---------------------------------------------------------------- C24
\* load_config has returned the rule list of the configuration file.
Loaded == pc # "main" /\ DOMAIN config = DOMAIN raw

\* Rule n of the file gives none of delay, repeat and waitCount.
AllOmitted(n) == {"delay", "repeat", "waitCount"} \cap DOMAIN raw[n] = {}

\* C24: in the loaded rule list every field the file gives is unchanged,
\* an omitted repeat is 1, an omitted delay 0 and an omitted waitCount 0,
\* and nothing else is added; a configuration of one rule that omits all
\* three is sent once, with no sleep and before any receive, and never
\* again.
C24_Defaults ==
    Loaded =>
        /\ \A n \in DOMAIN raw :
              /\ DOMAIN config[n] = DOMAIN raw[n] \cup {"delay", "repeat", "waitCount"}
              /\ \A f \in DOMAIN raw[n] : config[n][f] = raw[n][f]
              /\ "repeat" \notin DOMAIN raw[n] => config[n].repeat = 1
              /\ "delay" \notin DOMAIN raw[n] => config[n].delay = 0
              /\ "waitCount" \notin DOMAIN raw[n] => config[n].waitCount = 0
        /\ (Len(raw) = 1 /\ AllOmitted(1) /\ ~Malformed(raw)) =>
              /\ Len(sends) <= 1
              /\ main_recvs = 0
              /\ \A j \in DOMAIN sends : sends[j].slept = 0 /\ sends[j].at = 0
              /\ (pc = "done" /\ healthy) => Len(sends) = 1

\* The rule that gives only its pattern was sent once and the loop
\* returned.
C24_Witness ==
    /\ raw = <<[pattern |-> "A"]>>
    /\ config = <<Rule("A", 0, 1, 0)>>
    /\ pc = "done"
    /\ healthy
    /\ Len(sends) = 1

\* ---------------------------------------------------------------- C25
\* C25: the continuous loop is left only by a transport failure: the step
\* that leaves it sends nothing, sleeps no tick and is a failed payload
\* send or a failed liveness probe, a step that stays in it is neither, and while the loop
\* runs its heap holds one entry for every delay of its messages.
C25_StopsOnlyOnFailure ==
    /\ [](pc = "cont" =>
             /\ send_queue # {}
             /\ {e.delay : e \in send_queue}
                   = delay_values(continuous_messages(GroupOf(group))))
    /\ [][pc = "cont" =>
             /\ pc' # "cont" =>
                   /\ ~healthy'
                   /\ sends' = sends
                   /\ now' = now
                   /\ failures' \cap {"send", "probe"} # {}
             /\ pc' = "cont" =>
                   /\ failures' = failures
                   /\ healthy' = healthy]_vars

\* The schedule sent on a healthy transport until its probe failed, and
\* has returned.
C25_Witness ==
    /\ pc \in {"recv", "done"}
    /\ failures = {"probe"}
    /\ timed_out = {}
    /\ \E n \in DOMAIN messages : IsContinuous(n) /\ Len(SendsOf(n)) >= 2

\* ---------------------------------------------------------------- C26
\* Entries m and n are finite messages of one group.
FiniteTogether(m, n) ==
    /\ messages[m].repeat > 0
    /\ messages[n].repeat > 0
    /\ messages[m].waitCount = messages[n].waitCount

\* C26: the finite messages of one group are sent in the order of their
\* entries (rule order, then sorted file order) and one after the other:
\* a send of one is never followed by a send of an earlier one, and when
\* one has been sent every earlier one has had all its repeat sends.
C26_FiniteSequential ==
    \A j \in DOMAIN sends : \A l \in DOMAIN sends :
        (j < l /\ FiniteTogether(sends[j].msg, sends[l].msg)) =>
            /\ sends[j].msg <= sends[l].msg
            /\ sends[j].msg < sends[l].msg =>
                  /\ Len(SendsOf(sends[j].msg)) = messages[sends[j].msg].repeat
                  /\ \A q \in DOMAIN sends :
                        sends[q].msg = sends[j].msg => q < l

\* The two files of one rule and the file of the next rule, each sent
\* twice in one group.
C26_Witness ==
    /\ config = BurstConfig
    /\ healthy
    /\ [j \in DOMAIN sends |-> sends[j].file_path]
          = <<"G.1.bin", "G.1.bin", "G.2.bin", "G.2.bin", "A.bin", "A.bin">>

\* ---------------------------------------------------------------- C27
\* C27: a request-response controller sends, awaits, sends, ...: every
\* send of its message follows a sleep of the message's delay, the first
\* is made before the controller took any inbound message, and a later
\* one only after a round of abs(repeat) messages taken.  Its steps are a
\* send (from the start or from a completed round, into awaiting) and a
\* receive (while awaiting, into the send when the round is complete);
\* it stops only in a step that sends and takes nothing and in which a
\* send failed or, while awaiting, its receive came back empty.
C27_ControllerCycle ==
    /\ [](\A n \in DOMAIN messages :
             messages[n].repeat < 0 =>
                 /\ \A j \in DOMAIN SendsOf(n) :
                       SendsOf(n)[j].slept = messages[n].delay
                 /\ SendsOf(n) = <<>> => consumed[n] = 0
                 /\ Len(SendsOf(n)) <= 1 + (consumed[n] \div abs(messages[n].repeat)))
    /\ [][ControllerActive =>
             LET n == ControllerEntry
                 m == abs(messages[n].repeat)
                 stays == ControllerActive' /\ group' = group /\ idx' = idx
             IN  /\ (stays /\ sends' # sends) =>
                       /\ pc \in {"rr_first", "rr_send"}
                       /\ pc' = "rr_wait"
                       /\ Len(sends') = Len(sends) + 1
                       /\ sends'[Len(sends')].msg = n
                       /\ consumed' = consumed
                       /\ inbox' = inbox
                 /\ (stays /\ consumed' # consumed) =>
                       /\ pc = "rr_wait"
                       /\ consumed' = [consumed EXCEPT ![n] = @ + 1]
                       /\ sends' = sends
                       /\ pc' = (IF consumed'[n] % m = 0 THEN "rr_send" ELSE "rr_wait")
                 /\ (stays /\ pc' # pc) => (sends' # sends \/ consumed' # consumed)
                 /\ ~stays =>
                       /\ sends' = sends
                       /\ consumed' = consumed
                       /\ inbox' = inbox
                       /\ ~healthy'
                       /\ IF pc = "rr_wait"
                          THEN n \in timed_out' \/ "recv" \in failures'
                          ELSE "send" \in failures']_vars

\* A controller with a delay has sent, taken its round of two messages,
\* sent again and awaits.
C27_Witness ==
    /\ pc = "rr_wait"
    /\ messages[ControllerEntry].repeat = -2
    /\ messages[ControllerEntry].delay = 2
    /\ consumed[ControllerEntry] = 2
    /\ Len(SendsOf(ControllerEntry)) = 2
    /\ healthy

\* ---------------------------------------------------------------- C28
\* C28: a rotation set with delay D keeps to the grid start + n*D: while
\* its schedule runs, its n-th send (from 1) was popped from an entry with
\* fire time start_time + n*D, however late the send was made, and the
\* entry waiting on the heap has the next grid time.  While an entry is
\* due the loop does not sleep: the next step of the engine sends the due
\* entry's payload at the current clock value (or fails).
C28_DriftFree ==
    /\ [](pc = "cont" =>
             \A key \in RotationKeys :
                 key[1] = group =>
                     LET s == RotationSends(key) IN
                     /\ \A j \in DOMAIN s : s[j].due = start_time + j * key[2]
                     /\ \E e \in send_queue :
                           /\ e.delay = key[2]
                           /\ e.send_time = start_time + (Len(s) + 1) * key[2])
    /\ [][(pc = "cont" /\ Due(send_queue, current_time)) =>
             \/ UNCHANGED <<pc, now, sends, current_time, send_queue>>
             \/ /\ Len(sends') = Len(sends) + 1
                /\ sends'[Len(sends')].slept = 0
                /\ sends'[Len(sends')].at = now
                /\ sends'[Len(sends')].due = heap_top(send_queue).send_time
                /\ current_time' = current_time
             \/ /\ "send" \in failures'
                /\ pc' # "cont"
                /\ sends' = sends]_vars

\* A send of a set was made late, and the set's next send followed it
\* back-to-back, itself overdue and one period later on the grid.
C28_Witness ==
    \E key \in RotationKeys :
        LET s == RotationSends(key) IN
        \E j \in DOMAIN s :
            /\ j + 1 \in DOMAIN s
            /\ s[j].at > s[j].due
            /\ s[j + 1].at = s[j].done
            /\ s[j + 1].at > s[j + 1].due
            /\ s[j + 1].due = s[j].due + key[2]
            /\ s[j + 1].at < s[j].at + key[2]

\* ---------------------------------------------------------------- C29
\* C29: the continuous messages of a group are split by delay, with one
\* heap entry and one cursor for each delay, and each set runs as if it
\* were alone: its j-th send is its payload j mod N with fire time
\* start_time + j * delay, its cursor and its heap entry are given by the
\* number of its own sends, whatever the other sets did.  The entry that
\* is sent has the earliest fire time on the heap, so the sends of a
\* schedule are in the order of their fire times.
C29_SetsIndependent ==
    /\ [](pc = "cont" =>
             LET reply_schedule == continuous_messages(GroupOf(group)) IN
             /\ DOMAIN current_index = delay_values(reply_schedule)
             /\ \A d \in delay_values(reply_schedule) :
                   LET set == RotationSet(<<group, d>>)
                       s == RotationSends(<<group, d>>)
                   IN  /\ Cardinality({e \in send_queue : e.delay = d}) = 1
                       /\ current_index[d] = Len(s) % Len(set)
                       /\ \A e \in send_queue :
                             e.delay = d =>
                                 /\ reply_schedule[e.msg_index] = set[current_index[d] + 1]
                                 /\ e.send_time = start_time + (Len(s) + 1) * d
                       /\ \A j \in DOMAIN s :
                             /\ s[j].msg = set[((j - 1) % Len(set)) + 1]
                             /\ s[j].due = start_time + j * d)
    /\ [](\A j \in DOMAIN sends : \A l \in DOMAIN sends :
             (/\ j < l
              /\ IsContinuous(sends[j].msg)
              /\ IsContinuous(sends[l].msg)
              /\ messages[sends[j].msg].waitCount = messages[sends[l].msg].waitCount)
                 => sends[j].due <= sends[l].due)
    /\ [][(pc = "cont" /\ sends' # sends) =>
             \A e \in send_queue : sends'[Len(sends')].due <= e.send_time]_vars

\* Two sets were due in one pass: the one with the earlier fire time was
\* sent first and the other right after it.
C29_Witness ==
    \E j \in DOMAIN sends :
        /\ j + 1 \in DOMAIN sends
        /\ IsContinuous(sends[j].msg)
        /\ IsContinuous(sends[j + 1].msg)
        /\ messages[sends[j].msg].delay # messages[sends[j + 1].msg].delay
        /\ sends[j].due < sends[j + 1].due
        /\ sends[j + 1].at = sends[j].done
        /\ sends[j + 1].at >= sends[j + 1].due
        /\ sends[j].at > sends[j].due

\* ---------------------------------------------------------------- C30
\* Entry n is a single message.
IsSingle(n) == messages[n].repeat = 0 /\ messages[n].delay = 0

\* Control is in the group of entry n, past the group's single messages.
PastSingles(n) ==
    /\ pc \in {"finite", "rr_first", "rr_wait", "rr_send", "cont_start", "cont"}
    /\ group = messages[n].waitCount

\* C30: a message with repeat = 0 and delay = 0 is never sent twice, it
\* was sent exactly once as soon as its group has moved on to its other
\* messages or has returned with no failure, and no entry of the
\* continuous heap ever refers to it; a message with repeat = 0 and
\* delay > 0 is sent by no other dispatch than the continuous schedule,
\* which, while it runs, always holds the next send of the message's set.
C30_SingleOnceContinuousOn ==
    /\ \A n \in DOMAIN messages :
          IsSingle(n) =>
              /\ Len(SendsOf(n)) <= 1
              /\ messages[n].sent_count = Len(SendsOf(n))
              /\ (PastSingles(n) \/ GroupCompleted(messages[n].waitCount))
                    => Len(SendsOf(n)) = 1
              /\ \A j \in DOMAIN sends :
                    sends[j].msg = n => sends[j].slept = 0 /\ sends[j].due = sends[j].at
    /\ pc = "cont" =>
          LET reply_schedule == continuous_messages(GroupOf(group)) IN
          /\ \A e \in send_queue : IsContinuous(reply_schedule[e.msg_index])
          /\ \A p \in DOMAIN reply_schedule :
                /\ IsContinuous(reply_schedule[p])
                /\ \E e \in send_queue : e.delay = messages[reply_schedule[p]].delay
    /\ \A n \in DOMAIN messages :
          (IsContinuous(n) /\ SendsOf(n) # <<>>) =>
              /\ fired[messages[n].waitCount] = 1
              /\ (failures = {} /\ timed_out = {}) =>
                    (pc = "cont" /\ group = messages[n].waitCount)

\* One group held a single and a continuous message: the single was sent
\* once, the continuous one three times so far.
C30_Witness ==
    \E n \in DOMAIN messages : \E m \in DOMAIN messages :
        /\ IsSingle(n)
        /\ IsContinuous(m)
        /\ messages[n].waitCount = messages[m].waitCount
        /\ pc = "cont"
        /\ Len(SendsOf(n)) = 1
        /\ Len(SendsOf(m)) >= 3

\* ---------------------------------------------------------------- C31
\* The place of entry n's kind in the dispatch of a group.
KindRank(n) ==
    IF messages[n].repeat < 0 THEN 3
    ELSE IF messages[n].repeat > 0 THEN 2
    ELSE IF messages[n].delay = 0 THEN 1
    ELSE 4

\* The controller of request-response entry n has run and has stopped.
Terminated(n) ==
    /\ SendsOf(n) # <<>> \/ "send" \in failures
    /\ n \in timed_out \/ failures \cap {"send", "recv"} # {}
    /\ ~(ControllerActive /\ ControllerEntry = n)

\* C31: the sends of one group are ordered by kind, whatever the order of
\* the rules: single, then finite, then request-response, then
\* continuous; and whenever the continuous schedule of a group is running
\* or has sent, every request-response controller of the group has run
\* and stopped, and takes no message any more.
C31_DispatchByKind ==
    /\ [](\A j \in DOMAIN sends : \A l \in DOMAIN sends :
             (j < l /\ messages[sends[j].msg].waitCount
                          = messages[sends[l].msg].waitCount)
                 => KindRank(sends[j].msg) <= KindRank(sends[l].msg))
    /\ [](\A n \in DOMAIN messages : \A m \in DOMAIN messages :
             (/\ messages[n].repeat < 0
              /\ IsContinuous(m)
              /\ messages[m].waitCount = messages[n].waitCount
              /\ \/ SendsOf(m) # <<>>
                 \/ (pc \in {"cont_start", "cont"} /\ group = messages[m].waitCount))
                 => Terminated(n))
    /\ [][(pc \in {"cont_start", "cont"}) => (consumed' = consumed)]_vars

\* A group configured as continuous rule, then request-response rule: the
\* controller sent twice and timed out before the first continuous send.
C31_Witness ==
    \E n \in DOMAIN messages : \E m \in DOMAIN messages :
        /\ m < n
        /\ messages[n].repeat < 0
        /\ IsContinuous(m)
        /\ messages[m].waitCount = messages[n].waitCount
        /\ Len(SendsOf(n)) >= 2
        /\ n \in timed_out
        /\ failures = {}
        /\ Len(SendsOf(m)) >= 1

\* ---------------------------------------------------------------- C32
\* Entries n and m are request-response messages of one group, n before m.
ControllersInOrder(n, m) ==
    /\ n < m
    /\ messages[n].repeat < 0
    /\ messages[m].repeat < 0
    /\ messages[n].waitCount = messages[m].waitCount

\* C32: the controllers of one group run one after the other: a later one
\* has sent or taken a message only when every earlier one has run and
\* stopped, on an empty receive or a failed send, and a controller that is
\* not the running one sends and takes nothing.  A step takes at most one
\* message from the connection and counts it for at most one controller,
\* so every message the peer wrote is unread or counted exactly once.
C32_OneControllerAwaits ==
    /\ [](\A n \in DOMAIN messages : \A m \in DOMAIN messages :
             (ControllersInOrder(n, m) /\ (SendsOf(m) # <<>> \/ consumed[m] > 0))
                 => Terminated(n))
    /\ [](Counted + inbox = peer_sent)
    /\ [][\A n \in DOMAIN messages :
             messages[n].repeat < 0 =>
                 /\ consumed'[n] # consumed[n] =>
                       /\ pc = "rr_wait"
                       /\ ControllerEntry = n
                       /\ inbox' = inbox - 1
                       /\ \A m \in DOMAIN messages \ {n} : consumed'[m] = consumed[m]
                 /\ Len(SelectSeq(sends', LAMBDA e : e.msg = n)) # Len(SendsOf(n)) =>
                       /\ pc \in {"rr_first", "rr_send"}
                       /\ ControllerEntry = n]_vars

\* The controller of the first of two files timed out after a round, and
\* the controller of the second has sent, taken a message and sent again.
C32_Witness ==
    \E n \in DOMAIN messages : \E m \in DOMAIN messages :
        /\ ControllersInOrder(n, m)
        /\ n \in timed_out
        /\ failures = {}
        /\ consumed[n] >= 1
        /\ consumed[m] >= 1
        /\ Len(SendsOf(m)) >= 2
        /\ messages[n].file_path = "G.1.bin"
        /\ messages[m].file_path = "G.2.bin"

\* ---------------------------------------------------------------- C33
\* C33: the step in which a controller's receive times out leaves
\* received_count as it is and hands control on within the engine: to the
\* next controller of the group if there is one, else to the group's
\* continuous schedule if it has continuous messages, else back to the
\* receive of run_message_loop while a larger waitCount is pending (and
\* only with none pending does the function return).  Whenever the loop
\* waits, the group of the largest waitCount has not fired yet.
C33_TimeoutReturnsControl ==
    /\ [](pc = "recv" =>
             /\ received_count < max_wait_count
             /\ fired[max_wait_count] = 0
             /\ "connection" \in resources)
    /\ [][\A n \in (timed_out' \ timed_out) \ {0} :
             /\ received_count' = received_count
             /\ fired' = fired
             /\ IF idx < Len(request_response_messages(GroupOf(group)))
                THEN pc' = "rr_first" /\ group' = group /\ idx' = idx + 1
                ELSE IF continuous_messages(GroupOf(group)) # <<>>
                THEN pc' = "cont_start" /\ group' = group
                ELSE IF \E k \in wait_keys : k > received_count
                THEN pc' = "recv"
                ELSE pc' = "done"]_vars

\* After a controller's timeout the loop has counted a further message
\* and waits for the next.
C33_Witness ==
    \E n \in timed_out \ {0} :
        /\ failures = {}
        /\ 0 \notin timed_out
        /\ pc = "recv"
        /\ received_count > messages[n].waitCount
        /\ Counted = received_count + consumed[n]
        /\ consumed[n] >= 1

\* ---------------------------------------------------------------- C34
\* The largest waitCount of the configuration (0 with no rules).
MaxConfigured == MaxOf({0} \cup {config[n].waitCount : n \in DOMAIN config})

\* C34: received_count stays within 0 and the largest waitCount of a
\* group (so within the largest configured waitCount); it changes only
\* in a receive of run_message_loop that got a message, and then by
\* exactly one; and when it has reached the largest waitCount the loop
\* is not waiting and makes no further receive.
C34_ReceivedCountBounds ==
    /\ [](Built =>
             /\ received_count >= 0
             /\ received_count <= MaxOf(wait_keys \cup {0})
             /\ received_count <= MaxConfigured
             /\ (wait_keys # {} /\ received_count = max_wait_count) => pc # "recv")
    /\ [][/\ received_count' \in {received_count, received_count + 1}
          /\ received_count' = received_count + 1 <=>
                /\ pc = "recv"
                /\ main_recvs' = main_recvs + 1
                /\ inbox' = inbox - 1
          /\ (Built /\ wait_keys # {} /\ received_count = max_wait_count)
                => main_recvs' = main_recvs]_vars

\* The loop counted up to the largest waitCount, two, in two receives,
\* while the peer had written more.
C34_Witness ==
    /\ Built
    /\ wait_keys # {}
    /\ max_wait_count = 2
    /\ received_count = 2
    /\ main_recvs = 2
    /\ peer_sent > 2

\* ---------------------------------------------------------------- C35
\* A receive of run_message_loop's loop came back with nothing.
LoopReceivedNothing ==
    /\ pc = "recv"
    /\ main_recvs' = main_recvs + 1
    /\ inbox' = inbox

\* C35: a receive of the loop that comes back empty, because of the
\* timeout, a closed peer or a receive error, counts nothing, fires
\* nothing, sends nothing and ends run_message_loop, the same for every
\* cause; after the loop's timeout no payload is sent and no receive is
\* made.
C35_EmptyReceiveEndsLoop ==
    /\ [][LoopReceivedNothing =>
             /\ 0 \in timed_out' \/ "recv" \in failures'
             /\ received_count' = received_count
             /\ fired' = fired
             /\ sends' = sends
             /\ consumed' = consumed
             /\ pc' = "done"
             /\ resources' = {}]_vars
    /\ [][(0 \in timed_out \/ pc = "done") =>
             /\ sends' = sends
             /\ main_recvs' = main_recvs
             /\ inbox' = inbox
             /\ received_count' = received_count]_vars

\* The loop ended on a receive error with a wait group still pending and
\* no timeout.
C35_Witness ==
    /\ pc = "done"
    /\ failures = {"recv"}
    /\ timed_out = {}
    /\ main_recvs = received_count + 1
    /\ received_count >= 1
    /\ \E k \in wait_keys : fired[k] = 0

\* ---------------------------------------------------------------- C36
\* A send_file call of the single or finite loop has failed.
PhaseSendFailed ==
    /\ pc \in {"single", "finite"}
    /\ "send" \in failures'
    /\ sends' = sends
    /\ <<pc', group', idx', i'>> # <<pc, group, idx, i>>

\* Group k was handed to execute_message_group and the call is over.
Left(k) == fired[k] = 1 /\ ~Executing(k)

\* C36: a failed send of a single or finite message ends the group's
\* call: no sent_count changes in that step, control is back in
\* run_message_loop (at its receive, or returned), and a group whose call
\* is over never sends again, so whatever single, finite,
\* request-response or continuous message of it was still to come is
\* never sent.
C36_FailedSendAbandonsGroup ==
    /\ [][PhaseSendFailed =>
             /\ messages' = messages
             /\ pc' \in {"recv", "done"}
             /\ group' = NoGroup
             /\ received_count' = received_count]_vars
    /\ [][\A k \in DOMAIN fired :
             (Left(k) /\ sends' # sends) =>
                 messages[sends'[Len(sends')].msg].waitCount # k]_vars
    /\ [](\A k \in DOMAIN fired : fired[k] <= 1)

\* The first of a group's finite messages failed on its second send: the
\* call is over and the group's two later messages were never sent.
C36_Witness ==
    \E n \in DOMAIN messages : \E m \in DOMAIN messages : \E o \in DOMAIN messages :
        /\ messages[n].repeat = 2
        /\ Len(SendsOf(n)) = 1
        /\ messages[n].sent_count = 1
        /\ n < m
        /\ m < o
        /\ messages[m].waitCount = messages[n].waitCount
        /\ messages[o].waitCount = messages[n].waitCount
        /\ SendsOf(m) = <<>>
        /\ SendsOf(o) = <<>>
        /\ Left(messages[n].waitCount)
        /\ failures = {"send"}
        /\ timed_out = {}

\* ---------------------------------------------------------------- C37
\* The first send of rotation set key, as a sequence of at most one send.
FirstOfSet(key) ==
    IF RotationSends(key) = <<>> THEN <<>> ELSE <<RotationSends(key)[1]>>

\* C37: no continuous payload goes out when its schedule starts: the heap
\* built at the start holds, for every delay, one entry with fire time
\* start + delay; while the schedule runs every send of it was made at or
\* after start_time + delay, so after start_time; and the first send of a
\* schedule is at least its message's delay after the completion of
\* whatever was sent before the schedule started.
C37_FirstSendAfterDelay ==
    /\ [](pc = "cont" =>
             \A key \in RotationKeys :
                 key[1] = group =>
                     /\ \A j \in DOMAIN RotationSends(key) :
                           /\ RotationSends(key)[j].at >= start_time + key[2]
                           /\ RotationSends(key)[j].at > start_time
                     /\ \A j \in DOMAIN FirstOfSet(key) :
                           FirstOfSet(key)[j].due = start_time + key[2])
    /\ [](\A j \in DOMAIN sends :
             (/\ j > 1
              /\ IsContinuous(sends[j].msg)
              /\ ~(/\ IsContinuous(sends[j - 1].msg)
                   /\ messages[sends[j - 1].msg].waitCount
                         = messages[sends[j].msg].waitCount))
                 => sends[j].at >= sends[j - 1].done + messages[sends[j].msg].delay)
    /\ [][pc = "cont_start" =>
             (pc' = "cont" =>
                 /\ sends' = sends
                 /\ start_time' = now
                 /\ \A e \in send_queue' : e.send_time = now + e.delay
                 /\ ~Due(send_queue', current_time'))]_vars

\* A schedule started after earlier sends of its group and after time had
\* passed; its set's first send went out exactly one delay after the start.
C37_Witness ==
    /\ pc = "cont"
    /\ start_time >= 1
    /\ \E key \in RotationKeys :
          /\ key[1] = group
          /\ FirstOfSet(key) # <<>>
          /\ FirstOfSet(key)[1].at = start_time + key[2]
          /\ \E j \in DOMAIN sends :
                /\ j > 1
                /\ sends[j] = FirstOfSet(key)[1]
                /\ messages[sends[j - 1].msg].waitCount = key[1]

\* ---------------------------------------------------------------- C38
\* No message entry has a waitCount above 0.
NoWaitGroups == Built /\ wait_keys = {}

\* C38 as stated: with no wait group the engine never receives from the
\* connection: nothing the peer wrote is ever taken.
C38_NeverReceives ==
    NoWaitGroups => (main_recvs = 0 /\ Counted = 0 /\ inbox = peer_sent)

\* C38 amended: with no wait group run_message_loop never enters its
\* receive loop: it makes no receive of its own and counts nothing, it is
\* in the immediate group's call or has returned (at once, with nothing
\* sent, when there is no message entry), and whatever was taken from the
\* connection was taken by a request-response controller of the immediate
\* group.
C38_NoReceiveLoop ==
    NoWaitGroups =>
        /\ main_recvs = 0
        /\ received_count = 0
        /\ 0 \notin timed_out
        /\ pc \in {"start", "done"} \/ Executing(0)
        /\ messages = <<>> => (pc = "done" /\ sends = <<>> /\ inbox = peer_sent)
        /\ Counted + inbox = peer_sent
        /\ \A n \in DOMAIN messages : consumed[n] > 0 => messages[n].repeat < 0
        /\ (\A n \in DOMAIN messages : messages[n].repeat >= 0)
              => inbox = peer_sent

\* The immediate group was sent and the function returned healthy, with
\* messages of the peer left unread.
C38_Witness ==
    /\ NoWaitGroups
    /\ pc = "done"
    /\ healthy
    /\ Len(sends) >= 2
    /\ inbox >= 1
    /\ inbox = peer_sent

\* ---------------------------------------------------------------- C39
\* C39: at every point between two send_file calls the sent_count of
\* every entry, of whatever kind, is the number of its payloads that went
\* out; it is 0 when run_message_loop starts, a step raises it by at most
\* one and never lowers it, and a step that puts nothing on the wire, a
\* failed send among them, leaves every sent_count as it is.
C39_SentCountExact ==
    /\ [](\A n \in DOMAIN messages :
             /\ messages[n].sent_count = Len(SendsOf(n))
             /\ pc = "start" => messages[n].sent_count = 0)
    /\ [][pc # "loop" =>
             /\ DOMAIN messages' = DOMAIN messages
             /\ \A n \in DOMAIN messages :
                   /\ messages'[n].sent_count >= messages[n].sent_count
                   /\ messages'[n].sent_count <= messages[n].sent_count + 1
                   /\ messages'[n].sent_count # messages[n].sent_count =>
                         /\ Len(sends') = Len(sends) + 1
                         /\ sends'[Len(sends')].msg = n
             /\ sends' = sends => messages' = messages]_vars

\* A request-response and a continuous message were each sent more than
\* once before a send failed.
C39_Witness ==
    \E n \in DOMAIN messages : \E m \in DOMAIN messages :
        /\ messages[n].repeat < 0
        /\ messages[n].sent_count >= 2
        /\ IsContinuous(m)
        /\ messages[m].sent_count >= 2
        /\ "send" \in failures

====
